---- MODULE Spec2Model ----
\* A model of the hand-written Promise/A+ container (_Promise): its settlement
\* state machine, the resolution procedure, then-chaining over a FIFO
\* microtask queue, finally, the constructor and the static combinators; of the
\* TaskQueue (bounded concurrency with pause and continue); and of produce
\* (copy-on-write through proxies).
EXTENDS Integers, Sequences, FiniteSets, TLC

\* ------------------------------------------------------------------ bounds
\* Containers that may exist in one run of the chaining scenario.
MaxPromises == 3
\* Calls the executor's owner makes to the root's two settlement functions.
MaxSettleCalls == 2
\* Foreign objects (candidate thenables) of the adoption scenario.
NumObjects == 2
\* Length of the iterable handed to a combinator, and containers to put in it.
MaxItems == 2
\* Calls the foreign thenables of one run make to their continuation callbacks.
MaxCalls == 3
\* Largest maxConcurency a TaskQueue is constructed with.
MaxConcurrency == 2
\* Calls of add() made from outside the tasks in one run of a TaskQueue.
MaxAdds == 3
\* Objects and arrays in the source handed to produce.
NumNodes == 3
\* Keys of an object, or elements of an array, of that source.
MaxWidth == 2
\* Property reads and writes the action makes through the proxies.
MaxAccesses == 3

VARIABLES
    promises,     \* heap of _Promise instances: #state, #result, #reason, both callback queues
    microtasks,   \* the host's microtask queue (queueMicrotask), FIFO
    adoptions,    \* one record per thenable adoption / static resolve: the HAS_CALLED latch
    callStack,    \* adoptions whose foreign then() is executing right now (innermost last)
    invoked,      \* log of handler invocations, in the order they ran
    settleLog,    \* containers in the order they left pending
    uncaught,     \* TRUE once an exception escaped to the host
    thenKind,     \* per foreign object: what reading its .then member gives
    settleCalls,  \* calls made so far to the root's settlement functions
    results,      \* the results array of the running combinator
    restNum,      \* the restNum counter of the running combinator
    staticCall,   \* the call of a static method made in this run, if any
    thenableTrace, \* per adoption: what the foreign thenable has done so far
    constructed,  \* the latest call of the constructor: the executor given and what came back
    maxConcurency, \* TaskQueue: #maxConcurency
    restTasks,    \* TaskQueue: #restTasks, the waiting task functions, oldest first
    runningTasks, \* TaskQueue: the keys of the #runningTasks map
    IS_PAUSE,     \* TaskQueue: #IS_PAUSE
    started,      \* TaskQueue: log of the task runs started, in the order they started
    added,        \* TaskQueue: log of the task functions given to add(), in call order
    heap,         \* produce: the objects and arrays that exist; the source's come first
    proxyRecords, \* produce: the source nodes in the proxyRecords map
    copyRecords,  \* produce: per source node, its shallow copy in the copyRecords map (0: none)
    produced,     \* produce: where the call stands and what it returned or raised
    sourceAtCall, \* produce: the source as it was when produce was called
    written,      \* produce: the (node, key) pairs the action assigned to
    accesses      \* produce: property reads and writes made by the action so far

\* the state of a TaskQueue
queueVars == <<maxConcurency, restTasks, runningTasks, IS_PAUSE, started, added>>

\* the state of a call of produce
produceVars == <<heap, proxyRecords, copyRecords, produced, sourceAtCall, written, accesses>>

\* the state of the scenarios that do not concern a run of the promise scenarios
otherVars == <<constructed, queueVars, produceVars>>

\* the state of the promise scenarios
promiseVars == <<promises, microtasks, adoptions, callStack, invoked, settleLog, uncaught,
                 thenKind, settleCalls, results, restNum, staticCall, thenableTrace>>

vars == <<promiseVars, otherVars>>

\* An executor as data: whether the argument is callable at all, the calls it
\* makes to the two functions it is given, and whether it then raises.
Executor(callable, calls, throws) == [callable |-> callable, calls |-> calls, throws |-> throws]

\* no call of the constructor yet
NoConstruction ==
    [called |-> FALSE, executor |-> Executor(FALSE, <<>>, FALSE), raised |-> FALSE,
     value |-> [t |-> "undefined", v |-> 0], before |-> 0]

\* produce has not been called
NotProduced == [phase |-> "idle", value |-> [t |-> "undefined", v |-> 0], error |-> "none"]

ProduceIdle ==
    /\ heap = <<>>
    /\ proxyRecords = {}
    /\ copyRecords = <<>>
    /\ produced = NotProduced
    /\ sourceAtCall = <<>>
    /\ written = {}
    /\ accesses = 0

\* nothing has happened in the other scenarios
OthersIdle ==
    /\ ProduceIdle
    /\ constructed = NoConstruction
    /\ maxConcurency = 1
    /\ restTasks = <<>>
    /\ runningTasks = {}
    /\ IS_PAUSE = FALSE
    /\ started = <<>>
    /\ added = <<>>

\* ------------------------------------------------------------------ values
\* JavaScript values, all of one shape so that any two can be compared.
Plain(n) == [t |-> "plain", v |-> n]
Undefined == [t |-> "undefined", v |-> 0]
PromiseRef(p) == [t |-> "promise", v |-> p]
Obj(o) == [t |-> "object", v |-> o]
ArrayRef(k) == [t |-> "array", v |-> k]
CycleError == [t |-> "TypeError", v |-> 0]
ThrownBy(o) == [t |-> "thrown", v |-> o]

PROMISE_STATUS == [PENDING |-> "pending", FULFILLED |-> "fulfilled", REJECTED |-> "rejected"]

\* Handlers (closures) as data: what the function does when it is called.
Handler(kind, val, a) == [kind |-> kind, val |-> val, a |-> a]
NotFunction == Handler("notFunction", Undefined, 0)
Return(v) == Handler("return", v, 0)
Throw(v) == Handler("throw", v, 0)
ReturnNext == Handler("returnNext", Undefined, 0)
DefaultOnFulfilled == Handler("identity", Undefined, 0)
DefaultOnRejected_Returns == Handler("identity", Undefined, 0)
DefaultOnRejected == Handler("thrower", Undefined, 0)

\* The part of the state the engine's functions read and write.
Cur ==
    [promises |-> promises, microtasks |-> microtasks, adoptions |-> adoptions,
     callStack |-> callStack, invoked |-> invoked, settleLog |-> settleLog,
     results |-> results, restNum |-> restNum]

Commit(s) ==
    /\ promises' = s.promises
    /\ microtasks' = s.microtasks
    /\ adoptions' = s.adoptions
    /\ callStack' = s.callStack
    /\ invoked' = s.invoked
    /\ settleLog' = s.settleLog
    /\ results' = s.results
    /\ restNum' = s.restNum

Ok(s, v) == [s |-> s, threw |-> FALSE, val |-> v]
Raise(s, e) == [s |-> s, threw |-> TRUE, val |-> e]

\* ------------------------------------------------------------------ engine
NewContainer ==
    [state |-> PROMISE_STATUS.PENDING, result |-> Undefined, reason |-> Undefined,
     onFulfilledCallbacks |-> <<>>, onRejectedCallbacks |-> <<>>]

RECURSIVE RunReaction(_, _)

\* createMicroTask(fn): fn joins the end of the microtask queue.
createMicroTask(s, job) == [s EXCEPT !.microtasks = Append(@, job)]

\* Draining a callback queue: each stored callback, taken from the front, only
\* wraps its reaction in createMicroTask.
RECURSIVE Drain_LastFirst(_, _)
Drain_LastFirst(s, queue) ==
    IF queue = <<>> THEN s
    ELSE Drain_LastFirst(createMicroTask(s, queue[Len(queue)]), SubSeq(queue, 1, Len(queue) - 1))

RECURSIVE Drain(_, _)
Drain(s, queue) ==
    IF queue = <<>> THEN s ELSE Drain(createMicroTask(s, Head(queue)), Tail(queue))

Resolve_Unguarded(s, p, result) ==
    Drain([s EXCEPT !.promises[p].result = result,
                    !.promises[p].state = PROMISE_STATUS.FULFILLED,
                    !.promises[p].onFulfilledCallbacks = <<>>,
                    !.settleLog = Append(@, p)],
          s.promises[p].onFulfilledCallbacks)

\* #resolve(result)
Resolve(s, p, result) ==
    IF s.promises[p].state # PROMISE_STATUS.PENDING THEN s
    ELSE Drain([s EXCEPT !.promises[p].result = result,
                         !.promises[p].state = PROMISE_STATUS.FULFILLED,
                         !.promises[p].onFulfilledCallbacks = <<>>,
                         !.settleLog = Append(@, p)],
               s.promises[p].onFulfilledCallbacks)

Reject_Unguarded(s, p, reason) ==
    Drain([s EXCEPT !.promises[p].reason = reason,
                    !.promises[p].state = PROMISE_STATUS.REJECTED,
                    !.promises[p].onRejectedCallbacks = <<>>,
                    !.settleLog = Append(@, p)],
          s.promises[p].onRejectedCallbacks)

\* #reject(reason)
Reject(s, p, reason) ==
    IF s.promises[p].state # PROMISE_STATUS.PENDING THEN s
    ELSE Drain([s EXCEPT !.promises[p].reason = reason,
                         !.promises[p].state = PROMISE_STATUS.REJECTED,
                         !.promises[p].onRejectedCallbacks = <<>>,
                         !.settleLog = Append(@, p)],
               s.promises[p].onRejectedCallbacks)

Reaction(p, on, handler, next, site) ==
    [src |-> p, on |-> on, handler |-> handler, next |-> next, site |-> site]

Then_Inline(s, p, onFulfilled, onRejected) ==
    LET hF == IF onFulfilled.kind = "notFunction" THEN DefaultOnFulfilled ELSE onFulfilled
        hR == IF onRejected.kind = "notFunction" THEN DefaultOnRejected ELSE onRejected
        next == Len(s.promises) + 1
        s1 == [s EXCEPT !.promises = Append(@, NewContainer)]
        st == s.promises[p].state
    IN  CASE st = PROMISE_STATUS.FULFILLED ->
               RunReaction(s1, Reaction(p, "fulfilled", hF, next, "settled"))
          [] st = PROMISE_STATUS.REJECTED ->
               RunReaction(s1, Reaction(p, "rejected", hR, next, "settled"))
          [] OTHER ->
               [s1 EXCEPT
                  !.promises[p].onFulfilledCallbacks =
                      Append(@, Reaction(p, "fulfilled", hF, next, "pending")),
                  !.promises[p].onRejectedCallbacks =
                      Append(@, Reaction(p, "rejected", hR, next, "pending"))]

\* then(onFulfilled, onRejected): the new container is the last of the heap.
Then(s, p, onFulfilled, onRejected) ==
    LET hF == IF onFulfilled.kind = "notFunction" THEN DefaultOnFulfilled ELSE onFulfilled
        hR == IF onRejected.kind = "notFunction" THEN DefaultOnRejected ELSE onRejected
        next == Len(s.promises) + 1
        s1 == [s EXCEPT !.promises = Append(@, NewContainer)]
        st == s.promises[p].state
    IN  CASE st = PROMISE_STATUS.FULFILLED ->
               createMicroTask(s1, Reaction(p, "fulfilled", hF, next, "settled"))
          [] st = PROMISE_STATUS.REJECTED ->
               createMicroTask(s1, Reaction(p, "rejected", hR, next, "settled"))
          [] OTHER ->
               [s1 EXCEPT
                  !.promises[p].onFulfilledCallbacks =
                      Append(@, Reaction(p, "fulfilled", hF, next, "pending")),
                  !.promises[p].onRejectedCallbacks =
                      Append(@, Reaction(p, "rejected", hR, next, "pending"))]

CycleCheck_Off(promise, value) == FALSE

\* promise === value
CycleCheck(promise, value) == value = PromiseRef(promise)

\* The latch closures of one adoption: appended to the heap of adoptions.
NewAdoption(promise, value, raw) ==
    [promise |-> promise, value |-> value, HAS_CALLED |-> FALSE, raw |-> raw]

\* #resolveNextPromise(promise, value, resolve, reject); resolve and reject are
\* always the settlement functions of `promise` itself.
ResolveNextPromise(s, promise, value) ==
    IF CycleCheck(promise, value) THEN Raise(s, CycleError)
    ELSE IF value.t = "promise" THEN
        \* value.then is _Promise.prototype.then: called with the two latch closures
        LET a == Len(s.adoptions) + 1
            s1 == [s EXCEPT !.adoptions = Append(@, NewAdoption(promise, value, FALSE))]
        IN  Ok(Then(s1, value.v, Handler("onResolved", Undefined, a),
                    Handler("onRejected", Undefined, a)), Undefined)
    ELSE IF value.t = "object" THEN
        CASE thenKind[value.v] = "getterThrows" ->
               Ok(Reject(s, promise, ThrownBy(value.v)), Undefined)
          [] thenKind[value.v] = "function" ->
               \* the foreign then() starts executing: its calls are separate steps
               LET a == Len(s.adoptions) + 1
               IN  Ok([s EXCEPT !.adoptions = Append(@, NewAdoption(promise, value, FALSE)),
                                !.callStack = Append(@, a)], Undefined)
          [] OTHER -> Ok(Resolve(s, promise, value), Undefined)
    ELSE IF value.t = "array" THEN Ok(Resolve(s, promise, value), Undefined)
    ELSE Ok(Resolve(s, promise, value), Undefined)

OnResolved_NoRecursion(s, a, result) ==
    IF s.adoptions[a].HAS_CALLED THEN Ok(s, Undefined)
    ELSE Ok(Resolve([s EXCEPT !.adoptions[a].HAS_CALLED = TRUE],
                    s.adoptions[a].promise, result), Undefined)

OnRejected_NoLatch(s, a, reason) ==
    Ok(Reject([s EXCEPT !.adoptions[a].HAS_CALLED = TRUE],
              s.adoptions[a].promise, reason), Undefined)

\* The first closure handed to then.call: (result) => { latch; recurse }
OnResolved(s, a, result) ==
    IF s.adoptions[a].HAS_CALLED THEN Ok(s, Undefined)
    ELSE ResolveNextPromise([s EXCEPT !.adoptions[a].HAS_CALLED = TRUE],
                            s.adoptions[a].promise, result)

\* The second closure handed to then.call: (reason) => { latch; reject(reason) }
OnRejected(s, a, reason) ==
    IF s.adoptions[a].HAS_CALLED THEN Ok(s, Undefined)
    ELSE Ok(Reject([s EXCEPT !.adoptions[a].HAS_CALLED = TRUE],
                   s.adoptions[a].promise, reason), Undefined)

\* The catch block around reading and calling then.
CatchThenError_NoLatch(s, a, error) == Reject(s, s.adoptions[a].promise, error)

CatchThenError(s, a, error) ==
    IF s.adoptions[a].raw THEN Reject(s, s.adoptions[a].promise, error)
    ELSE IF s.adoptions[a].HAS_CALLED THEN s
    ELSE Reject([s EXCEPT !.adoptions[a].HAS_CALLED = TRUE], s.adoptions[a].promise, error)

\* results[index] = element, on a JavaScript array: the array grows to hold the
\* index, the skipped places being holes.
SetAt(arr, index, element, hole) ==
    [k \in 1..(IF index + 1 > Len(arr) THEN index + 1 ELSE Len(arr)) |->
        IF k = index + 1 THEN element
        ELSE IF k <= Len(arr) THEN arr[k] ELSE hole]

Hole == [t |-> "hole", v |-> 0]
Record(status, value, reason) == [status |-> status, value |-> value, reason |-> reason]
RecordHole == Record("hole", Undefined, Undefined)

AllOnFulfilled_Push(s, target, index, res) ==
    LET s1 == [s EXCEPT !.results = Append(@, res), !.restNum = @ - 1]
    IN  IF s1.restNum = 0 THEN Resolve(s1, target, ArrayRef(1)) ELSE s1

\* all: (res) => { results[index] = res; restNum--; if (!restNum) resolve(results) }
AllOnFulfilled(s, target, index, res) ==
    LET s1 == [s EXCEPT !.results = SetAt(@, index, res, Hole), !.restNum = @ - 1]
    IN  IF s1.restNum = 0 THEN Resolve(s1, target, ArrayRef(1)) ELSE s1

\* race: (res) => { resolve(res) }
RaceOnFulfilled(s, target, res) == Resolve(s, target, res)

\* allSettled: (result) => { results[index] = {status, value}; restNum--; ... }
SettledOnFulfilled(s, target, index, result) ==
    LET s1 == [s EXCEPT
                 !.results = SetAt(@, index,
                                   Record(PROMISE_STATUS.FULFILLED, result, Undefined),
                                   RecordHole),
                 !.restNum = @ - 1]
    IN  IF s1.restNum = 0 THEN Resolve(s1, target, ArrayRef(1)) ELSE s1

SettledOnRejected_Rejects(s, target, index, reason) == Reject(s, target, reason)

\* allSettled: (reason) => { results[index] = {status, reason}; restNum--; ... }
SettledOnRejected(s, target, index, reason) ==
    LET s1 == [s EXCEPT
                 !.results = SetAt(@, index,
                                   Record(PROMISE_STATUS.REJECTED, Undefined, reason),
                                   RecordHole),
                 !.restNum = @ - 1]
    IN  IF s1.restNum = 0 THEN Resolve(s1, target, ArrayRef(1)) ELSE s1

\* The callbacks handed to finally() in the finally scenario; a closure made
\* by finally() captures one of them, named by its place in this table.
\* Object 1 is a thenable whose then() calls its second argument, object 2 is
\* not a thenable.
FinallyCallbacks == <<Return(Plain(7)), Return(Obj(1)), Return(Obj(2)), Throw(Plain(8))>>

\* callback(): called with no arguments; logged, then returns or raises.
CallCallback(s, callback, next) ==
    LET s1 == [s EXCEPT !.invoked = Append(@, [reg |-> next, src |-> 0, on |-> "finally",
                                               kind |-> callback.kind, site |-> "callback",
                                               val |-> callback.val, a |-> 0,
                                               args |-> <<>>])]
    IN  IF callback.kind = "throw" THEN Raise(s1, callback.val) ELSE Ok(s1, callback.val)

FinallyOnFulfilled_ReturnsCallback(s, k, next, result) ==
    CallCallback(s, FinallyCallbacks[k], next)

\* finally: (result) => { callback(); return result; }
FinallyOnFulfilled(s, k, next, result) ==
    LET c == CallCallback(s, FinallyCallbacks[k], next)
    IN  IF c.threw THEN c ELSE Ok(c.s, result)

\* finally: (reason) => { callback(); throw reason; }
FinallyOnRejected(s, k, next, reason) ==
    LET c == CallCallback(s, FinallyCallbacks[k], next)
    IN  IF c.threw THEN c ELSE Raise(c.s, reason)

\* Calling a handler with `arg`; `next` is the container its then call returned.
CallHandler(s, h, arg, next) ==
    CASE h.kind = "identity" -> Ok(s, arg)
      [] h.kind = "thrower" -> Raise(s, arg)
      [] h.kind = "return" -> Ok(s, h.val)
      [] h.kind = "throw" -> Raise(s, h.val)
      [] h.kind = "returnNext" -> Ok(s, PromiseRef(next))
      [] h.kind = "onResolved" -> OnResolved(s, h.a, arg)
      [] h.kind = "onRejected" -> OnRejected(s, h.a, arg)
      [] h.kind = "reject" -> Ok(Reject(s, h.val.v, arg), Undefined)
      [] h.kind = "allOnFulfilled" -> Ok(AllOnFulfilled(s, h.val.v, h.a, arg), Undefined)
      [] h.kind = "raceOnFulfilled" -> Ok(RaceOnFulfilled(s, h.val.v, arg), Undefined)
      [] h.kind = "settledOnFulfilled" ->
             Ok(SettledOnFulfilled(s, h.val.v, h.a, arg), Undefined)
      [] h.kind = "settledOnRejected" ->
             Ok(SettledOnRejected(s, h.val.v, h.a, arg), Undefined)
      [] h.kind = "finallyOnFulfilled" -> FinallyOnFulfilled(s, h.a, next, arg)
      [] h.kind = "finallyOnRejected" -> FinallyOnRejected(s, h.a, next, arg)
      [] OTHER -> Ok(s, Undefined)

\* The reaction then() wraps in createMicroTask: run the handler on the
\* receiver's current result or reason, feed its outcome to the resolution
\* procedure for nextPromise, reject nextPromise with anything thrown.
RunReaction(s, job) ==
    LET arg == IF job.on = "fulfilled" THEN s.promises[job.src].result
               ELSE s.promises[job.src].reason
        s0 == [s EXCEPT !.invoked = Append(@, [reg |-> job.next, src |-> job.src,
                                               on |-> job.on, kind |-> job.handler.kind,
                                               site |-> job.site, val |-> job.handler.val,
                                               a |-> job.handler.a, args |-> <<arg>>])]
        h == CallHandler(s0, job.handler, arg, job.next)
    IN  IF h.threw THEN Reject(h.s, job.next, h.val)
        ELSE LET r == ResolveNextPromise(h.s, job.next, h.val)
             IN  IF r.threw THEN Reject(r.s, job.next, r.val) ELSE r.s

\* ------------------------------------------------------------------ chaining scenario
\* One root container whose executor kept its two settlement functions; the
\* owner calls them at any time, consumers call then on any container.
SettleValues == {Plain(1), Plain(2)}
UserHandlers == {NotFunction, Return(Plain(3)), Throw(Plain(4)), ReturnNext}

NoStaticCall ==
    [kind |-> "none", target |-> 0, items |-> <<>>, normalized |-> <<>>, settledAtCall |-> 0]

Init ==
    /\ promises = <<NewContainer>>
    /\ microtasks = <<>>
    /\ adoptions = <<>>
    /\ callStack = <<>>
    /\ invoked = <<>>
    /\ settleLog = <<>>
    /\ uncaught = FALSE
    /\ thenKind = <<>>
    /\ settleCalls = 0
    /\ results = <<>>
    /\ restNum = 0
    /\ staticCall = NoStaticCall
    /\ thenableTrace = <<>>
    /\ OthersIdle

\* the owner calls the root's resolve(v)
SettleFulfilled ==
    /\ callStack = <<>>
    /\ settleCalls < MaxSettleCalls
    /\ \E v \in SettleValues : Commit(Resolve(Cur, 1, v))
    /\ settleCalls' = settleCalls + 1
    /\ UNCHANGED <<uncaught, thenKind, staticCall, thenableTrace, otherVars>>

\* the owner calls the root's reject(r)
SettleRejected ==
    /\ callStack = <<>>
    /\ settleCalls < MaxSettleCalls
    /\ \E r \in SettleValues : Commit(Reject(Cur, 1, r))
    /\ settleCalls' = settleCalls + 1
    /\ UNCHANGED <<uncaught, thenKind, staticCall, thenableTrace, otherVars>>

\* a consumer calls p.then(onFulfilled, onRejected)
CallThen ==
    /\ callStack = <<>>
    /\ Len(promises) < MaxPromises
    /\ \E p \in 1..Len(promises), hF \in UserHandlers, hR \in UserHandlers :
           Commit(Then(Cur, p, hF, hR))
    /\ UNCHANGED <<uncaught, thenKind, settleCalls, staticCall, thenableTrace, otherVars>>

\* the host runs the oldest microtask once no code is executing
RunMicrotask ==
    /\ callStack = <<>>
    /\ microtasks # <<>>
    /\ Commit(RunReaction([Cur EXCEPT !.microtasks = Tail(@)], Head(microtasks)))
    /\ UNCHANGED <<uncaught, thenKind, settleCalls, staticCall, thenableTrace, otherVars>>

Next == SettleFulfilled \/ SettleRejected \/ CallThen \/ RunMicrotask

Spec == Init /\ [][Next]_vars

\* ------------------------------------------------------------------ claims, chaining
Settled(p) == promises[p].state # PROMISE_STATUS.PENDING

\* C1: a container leaves pending at most once: in every step, a container
\* that is already fulfilled or rejected keeps its state, result and reason,
\* whichever settlement function is called again and with whatever value.
C1_SettleOnce ==
    [][\A p \in 1..Len(promises) :
          Settled(p) =>
              /\ promises'[p].state = promises[p].state
              /\ promises'[p].result = promises[p].result
              /\ promises'[p].reason = promises[p].reason]_vars

\* the root is settled and its settlement functions were called again
C1_Witness == settleCalls >= 2 /\ Settled(1) /\ settleLog = <<1>>

\* C2: a handler is invoked only by the step that takes its reaction from the
\* head of the microtask queue, where an earlier step put it; never by the then
\* call that registers it (settled receiver) nor by the settlement call that
\* drains the callback queue (pending receiver).
C2_HandlersDeferred ==
    [][Len(invoked') > Len(invoked) =>
          /\ microtasks # <<>>
          /\ Len(invoked') = Len(invoked) + 1
          /\ invoked'[Len(invoked')].reg = Head(microtasks).next
          /\ Len(promises') = Len(promises)
          /\ settleCalls' = settleCalls]_vars

\* handlers have run for a registration on a settled receiver and for one on a pending receiver
C2_Witness ==
    /\ \E i \in 1..Len(invoked) : invoked[i].site = "settled" /\ invoked[i].kind = "return"
    /\ \E i \in 1..Len(invoked) : invoked[i].site = "pending" /\ invoked[i].kind = "return"

\* C3: the handlers of one container run in the order of their registration
\* (registration ids grow with each then call), whether registered while the
\* container was pending or after it settled.
C3_RegistrationOrder ==
    \A i, j \in 1..Len(invoked) :
        (i < j /\ invoked[i].src = invoked[j].src) => invoked[i].reg < invoked[j].reg

\* two handlers of the root ran: the first registered while pending, the second after settlement
C3_Witness ==
    \E i, j \in 1..Len(invoked) :
        /\ i < j
        /\ invoked[i].src = 1 /\ invoked[j].src = 1
        /\ invoked[i].site = "pending" /\ invoked[j].site = "settled"

\* the reaction of derived container q still waits in its receiver's callback
\* queue or in the microtask queue
ReactionWaiting(q) ==
    \/ \E k \in 1..Len(microtasks) : microtasks[k].next = q
    \/ \E p \in 1..Len(promises) :
          /\ ~Settled(p)
          /\ \E k \in 1..Len(promises[p].onFulfilledCallbacks) :
                promises[p].onFulfilledCallbacks[k].next = q

\* C4: once a handler has returned the container its own then call produced,
\* that container is rejected with the cycle TypeError; and such a container is
\* pending only while its reaction still waits to run (nothing loops or is lost).
C4_CycleRejected ==
    /\ \A i \in 1..Len(invoked) :
          invoked[i].kind = "returnNext" =>
              /\ promises[invoked[i].reg].state = PROMISE_STATUS.REJECTED
              /\ promises[invoked[i].reg].reason = CycleError
    /\ \A q \in 2..Len(promises) : ~Settled(q) => ReactionWaiting(q)

\* a handler returned its own container after the receiver settled
C4_Witness ==
    \E i \in 1..Len(invoked) :
        /\ invoked[i].kind = "returnNext"
        /\ promises[invoked[i].reg].reason = CycleError

\* ------------------------------------------------------------------ adoption scenario
\* static resolve(value): a _Promise instance is returned as it is; otherwise
\* a new container whose executor hands its own resolve and reject to value.then.
StaticResolve(s, value) ==
    IF value.t = "promise" THEN [s |-> s, p |-> value.v]
    ELSE LET p == Len(s.promises) + 1
             s1 == [s EXCEPT !.promises = Append(@, NewContainer)]
         IN  [p |-> p,
              s |-> IF value.t = "object" THEN
                        CASE thenKind[value.v] = "getterThrows" ->
                               Reject(s1, p, ThrownBy(value.v))
                          [] thenKind[value.v] = "function" ->
                               [s1 EXCEPT
                                  !.adoptions = Append(@, NewAdoption(p, value, TRUE)),
                                  !.callStack = Append(@, Len(s.adoptions) + 1)]
                          [] OTHER -> Resolve(s1, p, value)
                    ELSE Resolve(s1, p, value)]

\* What a call of the thenable to one of the two functions it was given does.
CallBack(s, a, cb, arg) ==
    IF s.adoptions[a].raw THEN
        IF cb = "onResolved" THEN Ok(Resolve(s, s.adoptions[a].promise, arg), Undefined)
        ELSE Ok(Reject(s, s.adoptions[a].promise, arg), Undefined)
    ELSE IF cb = "onResolved" THEN OnResolved(s, a, arg)
    ELSE OnRejected(s, a, arg)

NoTrace ==
    [calls |-> 0, first |-> [cb |-> "none", arg |-> Undefined, sync |-> FALSE],
     raisedFirst |-> FALSE, raised |-> FALSE, child |-> 0]

TraceOf(a) == IF a \in DOMAIN thenableTrace THEN thenableTrace[a] ELSE NoTrace

SetTrace(a, tr) ==
    [i \in 1..(IF a > Len(thenableTrace) THEN a ELSE Len(thenableTrace)) |->
        IF i = a THEN tr ELSE TraceOf(i)]

RECURSIVE SumCalls(_)
SumCalls(n) == IF n = 0 THEN 0 ELSE thenableTrace[n].calls + SumCalls(n - 1)

IsThenable(v) == v.t = "object" /\ thenKind[v.v] = "function"

AdoptValues == {Plain(5), PromiseRef(1)} \cup {Obj(o) : o \in 1..NumObjects}

\* what a thenable may pass to onResolved: a primitive, a foreign object, the
\* root container or the container being settled
ResolvedArgs(a) ==
    {Plain(5), PromiseRef(1), PromiseRef(adoptions[a].promise)}
        \cup {Obj(o) : o \in 1..NumObjects}

RejectedArgs == {Plain(6)}

InitAdopt ==
    /\ promises = <<[NewContainer EXCEPT !.state = PROMISE_STATUS.FULFILLED,
                                        !.result = Plain(1)]>>
    /\ microtasks = <<>>
    /\ adoptions = <<>>
    /\ callStack = <<>>
    /\ invoked = <<>>
    /\ settleLog = <<1>>
    /\ uncaught = FALSE
    /\ thenKind \in [1..NumObjects -> {"function", "notFunction", "getterThrows"}]
    /\ settleCalls = 1
    /\ results = <<>>
    /\ restNum = 0
    /\ staticCall = NoStaticCall
    /\ thenableTrace = <<>>
    /\ OthersIdle

TotalCalls == SumCalls(Len(thenableTrace))

\* root.then(() => v) has been called in this run
ThenRegistered ==
    \/ \E k \in 1..Len(microtasks) : microtasks[k].handler.kind = "return"
    \/ \E i \in 1..Len(invoked) : invoked[i].kind = "return"

\* a consumer calls root.then(() => v), once in a run
ThenReturning ==
    /\ callStack = <<>>
    /\ ~ThenRegistered
    /\ \E v \in AdoptValues : Commit(Then(Cur, 1, Return(v), NotFunction))
    /\ UNCHANGED <<uncaught, thenKind, settleCalls, staticCall, thenableTrace, otherVars>>

\* a consumer calls _Promise.resolve(v), once in a run
StaticResolveCall ==
    /\ callStack = <<>>
    /\ staticCall.kind = "none"
    /\ \E v \in AdoptValues :
          LET r == StaticResolve(Cur, v)
          IN  /\ Commit(r.s)
              /\ staticCall' = [kind |-> "resolve", target |-> r.p, items |-> <<v>>,
                                normalized |-> <<r.p>>,
                                settledAtCall |-> Len(r.s.settleLog)]
    /\ UNCHANGED <<uncaught, thenKind, settleCalls, thenableTrace, otherVars>>

\* The foreign thenable of adoption a calls one of its two callbacks: inside
\* its then() when that is the running frame, in a later turn otherwise. An
\* exception the callback throws unwinds the running then() into the catch
\* block; in a later turn no frame of the engine is below it and it escapes.
ThenableCalls ==
    \E a \in 1..Len(adoptions) :
      \E cb \in {"onResolved", "onRejected"} :
        \E arg \in (IF cb = "onResolved" THEN ResolvedArgs(a) ELSE RejectedArgs) :
          LET sync == callStack # <<>>
              r == CallBack(Cur, a, cb, arg)
              tr == TraceOf(a)
              grown == Len(r.s.adoptions) > Len(adoptions)
          IN  /\ adoptions[a].value.t = "object"
              /\ sync => callStack[Len(callStack)] = a
              /\ TotalCalls < MaxCalls
              /\ IF r.threw /\ sync
                 THEN Commit(CatchThenError(
                          [r.s EXCEPT !.callStack = SubSeq(@, 1, Len(@) - 1)], a, r.val))
                 ELSE Commit(r.s)
              /\ uncaught' = (uncaught \/ (r.threw /\ ~sync))
              /\ thenableTrace' = SetTrace(a,
                    [tr EXCEPT !.calls = @ + 1,
                               !.first = IF tr.calls = 0
                                         THEN [cb |-> cb, arg |-> arg, sync |-> sync] ELSE @,
                               !.child = IF tr.calls = 0 /\ grown
                                         THEN Len(r.s.adoptions) ELSE @])
              /\ UNCHANGED <<thenKind, settleCalls, staticCall, otherVars>>

\* the running foreign then() returns normally
ThenReturns ==
    /\ callStack # <<>>
    /\ callStack' = SubSeq(callStack, 1, Len(callStack) - 1)
    /\ UNCHANGED <<promises, microtasks, adoptions, invoked, settleLog, uncaught, thenKind,
                   settleCalls, results, restNum, staticCall, thenableTrace, otherVars>>

\* the running foreign then() raises
ThenRaises ==
    /\ callStack # <<>>
    /\ LET a == callStack[Len(callStack)]
           tr == TraceOf(a)
       IN  /\ Commit(CatchThenError(
                  [Cur EXCEPT !.callStack = SubSeq(@, 1, Len(@) - 1)], a,
                  ThrownBy(adoptions[a].value.v)))
           /\ thenableTrace' = SetTrace(a, [tr EXCEPT !.raisedFirst = (tr.calls = 0),
                                                     !.raised = TRUE])
    /\ UNCHANGED <<uncaught, thenKind, settleCalls, staticCall, otherVars>>

\* adoption through a then handler's return value
NextAdopt ==
    \/ ThenReturning
    \/ RunMicrotask
    \/ ThenableCalls
    \/ ThenReturns
    \/ ThenRaises

SpecAdopt == InitAdopt /\ [][NextAdopt]_vars

\* the static resolve given the same values
NextStatic ==
    \/ StaticResolveCall
    \/ ThenableCalls
    \/ ThenReturns
    \/ ThenRaises

SpecStatic == InitAdopt /\ [][NextStatic]_vars

\* ------------------------------------------------------------------ claims, adoption
\* What the thenable of adoption a has committed to, following nested
\* thenables: the primitive its chain of first onResolved calls ends in, or
\* Undefined when the chain does not (yet) end in one.
RECURSIVE ChainOutcome(_)
ChainOutcome(a) ==
    LET tr == TraceOf(a)
    IN  IF tr.first.cb = "onResolved" /\ ~tr.raisedFirst
        THEN IF tr.first.arg.t = "plain" THEN tr.first.arg
             ELSE IF IsThenable(tr.first.arg) /\ tr.child # 0 THEN ChainOutcome(tr.child)
             ELSE Undefined
        ELSE Undefined

\* C5: when the thenable a then handler returned calls onResolved first, with
\* a thenable that does the same, down to a primitive X, the container of that
\* then call is fulfilled with X; and it is never fulfilled with a thenable.
C5_NestedThenablesUnwrap ==
    \A a \in 1..Len(adoptions) :
        ~adoptions[a].raw =>
            LET p == adoptions[a].promise
            IN  /\ ChainOutcome(a) # Undefined =>
                      /\ promises[p].state = PROMISE_STATUS.FULFILLED
                      /\ promises[p].result = ChainOutcome(a)
                /\ ~(promises[p].state = PROMISE_STATUS.FULFILLED
                     /\ IsThenable(promises[p].result))

\* a thenable called back in a later turn with a nested thenable, which called
\* back inside its then with the primitive, and the container holds the primitive
C5_Witness ==
    \E a \in 1..Len(adoptions) :
        /\ adoptions[a].value.t = "object"
        /\ TraceOf(a).child # 0
        /\ ~TraceOf(a).first.sync
        /\ TraceOf(TraceOf(a).child).first.sync
        /\ ChainOutcome(a) = Plain(5)
        /\ promises[adoptions[a].promise].result = Plain(5)

\* C6: the container _Promise.resolve(v) returns settles as the resolution
\* procedure would settle it: in particular it is never fulfilled with a
\* thenable that v's then passed to onResolved, but adopts it.
C6_StaticResolveUnwraps ==
    staticCall.kind = "resolve" =>
        ~(promises[staticCall.target].state = PROMISE_STATUS.FULFILLED
          /\ IsThenable(promises[staticCall.target].result))

\* C7: within one adoption, a call to either continuation callback that is not
\* the thenable's first call changes nothing: no container, no queued reaction,
\* no latch, no running frame.
C7_FirstCallWins ==
    [][\A a \in 1..Len(adoptions) :
          (/\ ~adoptions[a].raw
           /\ TraceOf(a).calls >= 1
           /\ TraceOf(a)'.calls > TraceOf(a).calls) =>
              /\ promises' = promises
              /\ microtasks' = microtasks
              /\ adoptions' = adoptions
              /\ callStack' = callStack
              /\ uncaught' = uncaught]_vars

\* a thenable called onResolved with a nested thenable and then called again,
\* while the container is still pending
C7_Witness ==
    \E a \in 1..Len(adoptions) :
        /\ ~adoptions[a].raw
        /\ TraceOf(a).calls >= 2
        /\ TraceOf(a).first.cb = "onResolved"
        /\ IsThenable(TraceOf(a).first.arg)
        /\ promises[adoptions[a].promise].state = PROMISE_STATUS.PENDING

\* C16: when the thenable being adopted for P passes P itself to onResolved as
\* its first call, inside its then() or in a later turn, no exception escapes
\* to the host, and once that then() is no longer running P is rejected with
\* the cycle TypeError (nothing else can settle it: the latch is set).
C16_CycleThroughThenable ==
    /\ ~uncaught
    /\ \A a \in 1..Len(adoptions) :
          (/\ ~adoptions[a].raw
           /\ TraceOf(a).first.cb = "onResolved"
           /\ TraceOf(a).first.arg = PromiseRef(adoptions[a].promise)
           /\ \A k \in 1..Len(callStack) : callStack[k] # a) =>
              /\ promises[adoptions[a].promise].state = PROMISE_STATUS.REJECTED
              /\ promises[adoptions[a].promise].reason = CycleError

\* C17: a handler's return value whose then getter raises rejects the
\* container with what the getter raised; a then() that raises before calling
\* either callback rejects it with what then() raised; a then() that raises
\* after a callback was called changes no container and queues nothing, and a
\* container whose thenable called onRejected(r) first is rejected with r.
C17_RaisingThenable ==
    /\ [](/\ \A i \in 1..Len(invoked) :
                (/\ invoked[i].kind = "return"
                 /\ invoked[i].val.t = "object"
                 /\ thenKind[invoked[i].val.v] = "getterThrows") =>
                    /\ promises[invoked[i].reg].state = PROMISE_STATUS.REJECTED
                    /\ promises[invoked[i].reg].reason = ThrownBy(invoked[i].val.v)
          /\ \A a \in 1..Len(adoptions) :
                LET p == adoptions[a].promise
                    tr == TraceOf(a)
                IN  ~adoptions[a].raw =>
                        /\ tr.raisedFirst =>
                              /\ promises[p].state = PROMISE_STATUS.REJECTED
                              /\ promises[p].reason = ThrownBy(adoptions[a].value.v)
                        /\ (tr.first.cb = "onRejected" /\ tr.raised /\ ~tr.raisedFirst) =>
                              /\ promises[p].state = PROMISE_STATUS.REJECTED
                              /\ promises[p].reason = tr.first.arg)
    /\ [][\A a \in 1..Len(adoptions) :
             (/\ ~adoptions[a].raw
              /\ TraceOf(a)'.raised /\ ~TraceOf(a).raised
              /\ TraceOf(a).calls >= 1) =>
                 /\ promises' = promises
                 /\ microtasks' = microtasks
                 /\ adoptions' = adoptions
                 /\ uncaught' = uncaught]_vars

\* one thenable's then() raised after it had called onResolved with a nested
\* thenable, whose then() raised at once: the container is rejected with what
\* the nested then() raised
C17_Witness ==
    \E a \in 1..Len(adoptions) :
        /\ ~adoptions[a].raw
        /\ TraceOf(a).raised /\ ~TraceOf(a).raisedFirst
        /\ TraceOf(a).first.cb = "onResolved"
        /\ TraceOf(a).child # 0
        /\ TraceOf(TraceOf(a).child).raisedFirst
        /\ adoptions[TraceOf(a).child].value # adoptions[a].value
        /\ promises[adoptions[a].promise].reason = ThrownBy(adoptions[TraceOf(a).child].value.v)

\* ------------------------------------------------------------------ combinators
\* for (const item of target) { [index = restNum++;] _Promise.resolve(item).then(..., ...) }
\* from the i-th item on; `normalized` collects what _Promise.resolve returned.
RECURSIVE ForEachItem(_, _, _, _, _, _)
ForEachItem(s, kind, target, items, i, normalized) ==
    IF i > Len(items) THEN [s |-> s, normalized |-> normalized]
    ELSE LET index == s.restNum
             s1 == IF kind = "race" THEN s ELSE [s EXCEPT !.restNum = @ + 1]
             r == StaticResolve(s1, items[i])
             onFulfilled ==
                 CASE kind = "all" -> Handler("allOnFulfilled", PromiseRef(target), index)
                   [] kind = "race" -> Handler("raceOnFulfilled", PromiseRef(target), 0)
                   [] OTHER -> Handler("settledOnFulfilled", PromiseRef(target), index)
             onRejected ==
                 IF kind = "allSettled"
                 THEN Handler("settledOnRejected", PromiseRef(target), index)
                 ELSE Handler("reject", PromiseRef(target), 0)
         IN  ForEachItem(Then(r.s, r.p, onFulfilled, onRejected), kind, target, items,
                         i + 1, Append(normalized, r.p))

\* The executor of the container a combinator returns.
Combine(s, kind, items) ==
    LET target == Len(s.promises) + 1
        s0 == [s EXCEPT !.promises = Append(@, NewContainer),
                        !.restNum = 0, !.results = <<>>]
        l == ForEachItem(s0, kind, target, items, 1, <<>>)
    IN  [p |-> target, normalized |-> l.normalized,
         s |-> IF kind # "race" /\ l.s.restNum = 0
               THEN Resolve(l.s, target, ArrayRef(0)) ELSE l.s]

\* static all(target)
All(s, items) == Combine(s, "all", items)

\* static race(target)
Race(s, items) == Combine(s, "race", items)

\* static allSettled(target)
AllSettled(s, items) == Combine(s, "allSettled", items)

\* ------------------------------------------------------------------ combinator scenario
\* MaxItems containers whose owners settle them at any time, before or after
\* the combinator is called on an iterable of them and of primitives.
ItemValue(p) == Plain(10 + p)
ItemReason(p) == Plain(20 + p)
ItemChoices == {PromiseRef(p) : p \in 1..MaxItems} \cup {Plain(7)}

RECURSIVE SeqsOfLen(_, _)
SeqsOfLen(S, n) ==
    IF n = 0 THEN {<<>>}
    ELSE {Append(q, x) : q \in SeqsOfLen(S, n - 1), x \in S}

Iterables == UNION {SeqsOfLen(ItemChoices, n) : n \in 0..MaxItems}

InitComb ==
    /\ promises = [p \in 1..MaxItems |-> NewContainer]
    /\ microtasks = <<>>
    /\ adoptions = <<>>
    /\ callStack = <<>>
    /\ invoked = <<>>
    /\ settleLog = <<>>
    /\ uncaught = FALSE
    /\ thenKind = <<>>
    /\ settleCalls = 0
    /\ results = <<>>
    /\ restNum = 0
    /\ staticCall = NoStaticCall
    /\ thenableTrace = <<>>
    /\ OthersIdle

\* the owner of item p calls its resolve
ItemFulfils ==
    /\ \E p \in 1..MaxItems : Commit(Resolve(Cur, p, ItemValue(p)))
    /\ UNCHANGED <<uncaught, thenKind, settleCalls, staticCall, thenableTrace, otherVars>>

\* the owner of item p calls its reject
ItemRejects ==
    /\ \E p \in 1..MaxItems : Commit(Reject(Cur, p, ItemReason(p)))
    /\ UNCHANGED <<uncaught, thenKind, settleCalls, staticCall, thenableTrace, otherVars>>

Called(kind, r, items) ==
    /\ Commit(r.s)
    /\ staticCall' = [kind |-> kind, target |-> r.p, items |-> items,
                      normalized |-> r.normalized, settledAtCall |-> Len(r.s.settleLog)]
    /\ UNCHANGED <<uncaught, thenKind, settleCalls, thenableTrace, otherVars>>

CallAll ==
    /\ staticCall.kind = "none"
    /\ \E items \in Iterables : Called("all", All(Cur, items), items)

CallRace ==
    /\ staticCall.kind = "none"
    /\ \E items \in Iterables : Called("race", Race(Cur, items), items)

CallAllSettled ==
    /\ staticCall.kind = "none"
    /\ \E items \in Iterables : Called("allSettled", AllSettled(Cur, items), items)

NextComb ==
    \/ ItemFulfils
    \/ ItemRejects
    \/ CallAll
    \/ CallRace
    \/ CallAllSettled
    \/ RunMicrotask

SpecComb == InitComb /\ [][NextComb]_vars

\* ------------------------------------------------------------------ claims, combinators
Target == staticCall.target
NumItems == Len(staticCall.normalized)
\* the container _Promise.resolve(item) gave for the i-th item
Norm(i) == staticCall.normalized[i]
StateOf(p) == promises[p].state
Quiescent == microtasks = <<>>

\* when container p left pending, as its place in the order of settlements
TimeRank(p) == CHOOSE k \in 1..Len(settleLog) : settleLog[k] = p

\* when the reaction the combinator registered on the i-th item is queued: at
\* the call, in iteration order, for an item settled by then; at its
\* settlement for an item settled later
ReactionRank(i) ==
    IF TimeRank(Norm(i)) <= staticCall.settledAtCall THEN i
    ELSE NumItems + TimeRank(Norm(i))

RejectedItems == {i \in 1..NumItems : StateOf(Norm(i)) = PROMISE_STATUS.REJECTED}
SettledItems == {i \in 1..NumItems : Settled(Norm(i))}

AllFulfilment ==
    /\ NumItems = 0 =>
          /\ StateOf(Target) = PROMISE_STATUS.FULFILLED
          /\ promises[Target].result = ArrayRef(0)
    /\ (NumItems > 0 /\ StateOf(Target) = PROMISE_STATUS.FULFILLED) =>
          /\ promises[Target].result = ArrayRef(1)
          /\ Len(results) = NumItems
          /\ \A i \in 1..NumItems :
                /\ StateOf(Norm(i)) = PROMISE_STATUS.FULFILLED
                /\ results[i] = promises[Norm(i)].result
    /\ Quiescent =>
          /\ RejectedItems # {} => StateOf(Target) = PROMISE_STATUS.REJECTED
          /\ SettledItems = 1..NumItems /\ RejectedItems = {} =>
                StateOf(Target) = PROMISE_STATUS.FULFILLED

\* C8 as stated: all(items) is fulfilled only with every item fulfilled, with
\* their results in input order ([] for no item), and is rejected with the
\* reason of the item that rejected first in time.
C8_AllFirstInTime ==
    staticCall.kind = "all" =>
        /\ AllFulfilment
        /\ StateOf(Target) = PROMISE_STATUS.REJECTED =>
              \E i \in RejectedItems :
                  /\ promises[Target].reason = promises[Norm(i)].reason
                  /\ \A j \in RejectedItems : TimeRank(Norm(i)) <= TimeRank(Norm(j))

\* C8 as amended: the same, but the rejection that wins is the one whose
\* reaction is queued first: items already rejected when all is called count
\* in iteration order and before any item rejected later; items rejected after
\* the call count in order of rejection.
C8_AllFirstReaction ==
    staticCall.kind = "all" =>
        /\ AllFulfilment
        /\ StateOf(Target) = PROMISE_STATUS.REJECTED =>
              \E i \in RejectedItems :
                  /\ promises[Target].reason = promises[Norm(i)].reason
                  /\ \A j \in RejectedItems : ReactionRank(i) <= ReactionRank(j)

\* all rejected with the first item's reason although the second item rejected earlier
C8_Witness ==
    /\ staticCall.kind = "all"
    /\ NumItems >= 2
    /\ StateOf(Target) = PROMISE_STATUS.REJECTED
    /\ RejectedItems = 1..NumItems
    /\ promises[Target].reason = promises[Norm(1)].reason
    /\ TimeRank(Norm(2)) < TimeRank(Norm(1))

\* C9: allSettled(items) is never rejected; it is fulfilled only when every
\* item has settled, with one record per item in input order, tagged fulfilled
\* with the value or rejected with the reason ([] for no item); and once every
\* item has settled and the reactions have run it is fulfilled.
C9_AllSettledRecords ==
    staticCall.kind = "allSettled" =>
        /\ StateOf(Target) # PROMISE_STATUS.REJECTED
        /\ NumItems = 0 =>
              /\ StateOf(Target) = PROMISE_STATUS.FULFILLED
              /\ promises[Target].result = ArrayRef(0)
        /\ (NumItems > 0 /\ StateOf(Target) = PROMISE_STATUS.FULFILLED) =>
              /\ promises[Target].result = ArrayRef(1)
              /\ Len(results) = NumItems
              /\ \A i \in 1..NumItems :
                    /\ Settled(Norm(i))
                    /\ results[i] =
                          IF StateOf(Norm(i)) = PROMISE_STATUS.FULFILLED
                          THEN Record("fulfilled", promises[Norm(i)].result, Undefined)
                          ELSE Record("rejected", Undefined, promises[Norm(i)].reason)
        /\ (Quiescent /\ SettledItems = 1..NumItems) =>
              StateOf(Target) = PROMISE_STATUS.FULFILLED

\* allSettled fulfilled over a rejected item followed by a fulfilled one
C9_Witness ==
    /\ staticCall.kind = "allSettled"
    /\ NumItems >= 2
    /\ StateOf(Target) = PROMISE_STATUS.FULFILLED
    /\ StateOf(Norm(1)) = PROMISE_STATUS.REJECTED
    /\ StateOf(Norm(2)) = PROMISE_STATUS.FULFILLED
    /\ TimeRank(Norm(2)) < TimeRank(Norm(1))

RaceBasics ==
    /\ NumItems = 0 => StateOf(Target) = PROMISE_STATUS.PENDING
    /\ (Quiescent /\ SettledItems # {}) => Settled(Target)

SameOutcome(p, q) ==
    /\ promises[p].state = promises[q].state
    /\ promises[p].result = promises[q].result
    /\ promises[p].reason = promises[q].reason

\* C10 as stated: race(items) has the outcome of the item that settled first
\* in time, whatever settles later; with no item it stays pending.
C10_RaceFirstInTime ==
    staticCall.kind = "race" =>
        /\ RaceBasics
        /\ Settled(Target) =>
              \E i \in SettledItems :
                  /\ SameOutcome(Target, Norm(i))
                  /\ \A j \in SettledItems : TimeRank(Norm(i)) <= TimeRank(Norm(j))

\* C10 as amended: race(items) has the outcome of the item whose reaction is
\* queued first: items already settled when race is called count in iteration
\* order and before any item settled later; items settled after the call count
\* in order of settlement. With no item it stays pending.
C10_RaceFirstReaction ==
    staticCall.kind = "race" =>
        /\ RaceBasics
        /\ Settled(Target) =>
              \E i \in SettledItems :
                  /\ SameOutcome(Target, Norm(i))
                  /\ \A j \in SettledItems : ReactionRank(i) <= ReactionRank(j)

\* race took the outcome of a rejected first item, a later item having fulfilled since
C10_Witness ==
    /\ staticCall.kind = "race"
    /\ NumItems >= 2
    /\ StateOf(Target) = PROMISE_STATUS.REJECTED
    /\ SameOutcome(Target, Norm(1))
    /\ StateOf(Norm(2)) = PROMISE_STATUS.FULFILLED
    /\ TimeRank(Norm(1)) < TimeRank(Norm(2))
    /\ TimeRank(Norm(1)) > staticCall.settledAtCall

\* ------------------------------------------------------------------ finally scenario
\* finally(callback): then() with the two closures that capture callback k.
Finally(s, p, k) ==
    Then(s, p, Handler("finallyOnFulfilled", Undefined, k),
         Handler("finallyOnRejected", Undefined, k))

\* the reason the then() of thenable object o hands to its second argument
ThenableReason(o) == Plain(30 + o)

\* a pending root; object 1 is a thenable, the other objects are not
InitFinally ==
    /\ promises = <<NewContainer>>
    /\ microtasks = <<>>
    /\ adoptions = <<>>
    /\ callStack = <<>>
    /\ invoked = <<>>
    /\ settleLog = <<>>
    /\ uncaught = FALSE
    /\ thenKind = [o \in 1..NumObjects |-> IF o = 1 THEN "function" ELSE "notFunction"]
    /\ settleCalls = 0
    /\ results = <<>>
    /\ restNum = 0
    /\ staticCall = NoStaticCall
    /\ thenableTrace = <<>>
    /\ OthersIdle

\* a consumer calls p.finally(callback)
CallFinally ==
    /\ callStack = <<>>
    /\ Len(promises) < MaxPromises
    /\ \E p \in 1..Len(promises), k \in 1..Len(FinallyCallbacks) : Commit(Finally(Cur, p, k))
    /\ UNCHANGED <<uncaught, thenKind, settleCalls, staticCall, thenableTrace, otherVars>>

NextFinally == SettleFulfilled \/ SettleRejected \/ CallFinally \/ RunMicrotask

SpecFinally == InitFinally /\ [][NextFinally]_vars

\* ------------------------------------------------------------------ claims, finally
\* log entry i is a run of one of the two closures finally() made
FinallyRan(i) == invoked[i].kind \in {"finallyOnFulfilled", "finallyOnRejected"}

\* the log entries of the calls of the callback given to the finally() call that returned q
CallbackRuns(q) ==
    {j \in 1..Len(invoked) : invoked[j].site = "callback" /\ invoked[j].reg = q}

\* callback k returns a thenable that rejects
ReturnsRejectingThenable(k) ==
    FinallyCallbacks[k].kind = "return" /\ IsThenable(FinallyCallbacks[k].val)

\* callback k returns normally, and not a thenable that rejects
ReturnsNormally(k) == FinallyCallbacks[k].kind = "return" /\ ~ReturnsRejectingThenable(k)

C12_CallbackRejectionWins ==
    \A i \in 1..Len(invoked) :
        (FinallyRan(i) /\ ReturnsRejectingThenable(invoked[i].a)) =>
            LET q == invoked[i].reg
                R == ThenableReason(FinallyCallbacks[invoked[i].a].val.v)
            IN  Settled(q) =>
                    /\ promises[q].state = PROMISE_STATUS.REJECTED
                    /\ promises[q].reason = R

\* ------------------------------------------------------------------ constructor scenario
\* new TypeError("executor必须是一个函数")
ExecutorTypeError == [t |-> "TypeError", v |-> 1]

\* what a raising executor raises
ExecutorError == Plain(9)

\* the executor calls the resolve and reject it was given, in order
RECURSIVE RunCalls(_, _, _)
RunCalls(s, p, calls) ==
    IF calls = <<>> THEN s
    ELSE RunCalls(IF Head(calls).fn = "resolve" THEN Resolve(s, p, Head(calls).arg)
                  ELSE Reject(s, p, Head(calls).arg),
                  p, Tail(calls))

Construct_NoCatch(s, executor) ==
    IF ~executor.callable THEN Raise(s, ExecutorTypeError)
    ELSE LET p == Len(s.promises) + 1
             s1 == RunCalls([s EXCEPT !.promises = Append(@, NewContainer)], p, executor.calls)
         IN  IF executor.throws THEN Raise(s1, ExecutorError) ELSE Ok(s1, PromiseRef(p))

\* constructor(executor)
Construct(s, executor) ==
    IF ~executor.callable THEN Raise(s, ExecutorTypeError)
    ELSE LET p == Len(s.promises) + 1
             s1 == RunCalls([s EXCEPT !.promises = Append(@, NewContainer)], p, executor.calls)
         IN  Ok(IF executor.throws THEN Reject(s1, p, ExecutorError) ELSE s1, PromiseRef(p))

\* the calls an executor can make
ExecutorCalls == {[fn |-> "resolve", arg |-> Plain(1)], [fn |-> "reject", arg |-> Plain(2)]}

\* callable executors: up to MaxSettleCalls calls, then a return or a raise
Executors ==
    {Executor(TRUE, calls, throws) :
        calls \in UNION {SeqsOfLen(ExecutorCalls, n) : n \in 0..MaxSettleCalls},
        throws \in BOOLEAN}

InitCtor ==
    /\ promises = <<>>
    /\ microtasks = <<>>
    /\ adoptions = <<>>
    /\ callStack = <<>>
    /\ invoked = <<>>
    /\ settleLog = <<>>
    /\ uncaught = FALSE
    /\ thenKind = <<>>
    /\ settleCalls = 0
    /\ results = <<>>
    /\ restNum = 0
    /\ staticCall = NoStaticCall
    /\ thenableTrace = <<>>
    /\ OthersIdle

Constructing(executor) ==
    LET r == Construct(Cur, executor)
    IN  /\ Commit(r.s)
        /\ constructed' = [called |-> TRUE, executor |-> executor, raised |-> r.threw,
                           value |-> r.val, before |-> Len(promises)]
        /\ UNCHANGED <<uncaught, thenKind, settleCalls, staticCall, thenableTrace, queueVars,
                       produceVars>>

\* new _Promise(executor) with a function
NewPromise ==
    /\ Len(promises) < MaxPromises
    /\ \E executor \in Executors : Constructing(executor)

\* new _Promise(x) with x not a function
NewPromiseNotCallable ==
    /\ Len(promises) < MaxPromises
    /\ Constructing(Executor(FALSE, <<>>, FALSE))

NextCtor == NewPromise \/ NewPromiseNotCallable

SpecCtor == InitCtor /\ [][NextCtor]_vars

\* ------------------------------------------------------------------ claims, constructor
\* C13: a call of the constructor with a callable executor does not raise and
\* returns a new container; if the executor raised, that container is rejected
\* with the raised value when the executor had called neither function, and is
\* otherwise as the executor's first call left it; a call with a non-callable
\* argument raises the TypeError and adds no container.
C13_ConstructorNeverRaises ==
    constructed.called =>
        LET ex == constructed.executor
            p == constructed.before + 1
        IN  IF ex.callable
            THEN /\ ~constructed.raised
                 /\ constructed.value = PromiseRef(p)
                 /\ Len(promises) = p
                 /\ (ex.throws /\ ex.calls = <<>>) =>
                       /\ promises[p].state = PROMISE_STATUS.REJECTED
                       /\ promises[p].reason = ExecutorError
                 /\ (ex.calls # <<>> /\ Head(ex.calls).fn = "resolve") =>
                       /\ promises[p].state = PROMISE_STATUS.FULFILLED
                       /\ promises[p].result = Head(ex.calls).arg
                       /\ promises[p].reason = Undefined
                 /\ (ex.calls # <<>> /\ Head(ex.calls).fn = "reject") =>
                       /\ promises[p].state = PROMISE_STATUS.REJECTED
                       /\ promises[p].reason = Head(ex.calls).arg
                 /\ (ex.calls = <<>> /\ ~ex.throws) =>
                       promises[p].state = PROMISE_STATUS.PENDING
            ELSE /\ constructed.raised
                 /\ constructed.value = ExecutorTypeError
                 /\ Len(promises) = constructed.before

\* one executor raised at once and its container is rejected with what it
\* raised; the latest raised after calling resolve and its container is fulfilled
C13_Witness ==
    /\ constructed.called /\ constructed.executor.throws
    /\ constructed.executor.calls # <<>>
    /\ Head(constructed.executor.calls).fn = "resolve"
    /\ promises[Len(promises)].state = PROMISE_STATUS.FULFILLED
    /\ \E q \in 1..Len(promises) : promises[q].reason = ExecutorError

\* ------------------------------------------------------------------ pass-through scenario
\* A root that its owner rejects, and then() calls that give no rejection
\* handler (undefined or a non-function: both take the default).
RejectReasons == {Plain(2), Obj(1)}

\* a pending root; every foreign object is a thenable
InitPass ==
    /\ promises = <<NewContainer>>
    /\ microtasks = <<>>
    /\ adoptions = <<>>
    /\ callStack = <<>>
    /\ invoked = <<>>
    /\ settleLog = <<>>
    /\ uncaught = FALSE
    /\ thenKind = [o \in 1..NumObjects |-> "function"]
    /\ settleCalls = 0
    /\ results = <<>>
    /\ restNum = 0
    /\ staticCall = NoStaticCall
    /\ thenableTrace = <<>>
    /\ OthersIdle

\* the owner calls the root's reject(R)
RejectRoot ==
    /\ settleCalls < MaxSettleCalls
    /\ \E R \in RejectReasons : Commit(Reject(Cur, 1, R))
    /\ settleCalls' = settleCalls + 1
    /\ UNCHANGED <<uncaught, thenKind, staticCall, thenableTrace, otherVars>>

\* a consumer calls p.then(f) or p.then(f, nonFunction)
CallThenOnFulfilledOnly ==
    /\ Len(promises) < MaxPromises
    /\ \E p \in 1..Len(promises), f \in UserHandlers : Commit(Then(Cur, p, f, NotFunction))
    /\ UNCHANGED <<uncaught, thenKind, settleCalls, staticCall, thenableTrace, otherVars>>

NextPass == RejectRoot \/ CallThenOnFulfilledOnly \/ RunMicrotask

SpecPass == InitPass /\ [][NextPass]_vars

\* ------------------------------------------------------------------ claims, pass-through
\* C14: with the root rejected with R and then() calls that give no rejection
\* handler, no fulfilment handler is ever invoked (only the default rejection
\* handler runs, on R itself), every derived container that has settled is
\* rejected with the same R, no thenable R is adopted, and a derived container
\* is pending only while its reaction still waits to run.
C14_RejectionPassesThrough ==
    /\ \A i \in 1..Len(invoked) :
          /\ invoked[i].kind = "thrower"
          /\ invoked[i].args = <<promises[1].reason>>
    /\ \A q \in 2..Len(promises) :
          IF Settled(q)
          THEN /\ promises[q].state = PROMISE_STATUS.REJECTED
               /\ promises[q].reason = promises[1].reason
               /\ promises[1].state = PROMISE_STATUS.REJECTED
          ELSE ReactionWaiting(q)
    /\ adoptions = <<>>
    /\ callStack = <<>>

\* the root was rejected with a thenable while f1 was registered; the chain
\* root.then(f1).then(f2) is wholly rejected with that same thenable
C14_Witness ==
    /\ Len(promises) = 3
    /\ promises[1].reason = Obj(1) /\ promises[2].reason = Obj(1) /\ promises[3].reason = Obj(1)
    /\ \E k \in 1..Len(promises[1].onFulfilledCallbacks) :
          /\ promises[1].onFulfilledCallbacks[k].handler.kind = "return"
          /\ promises[1].onFulfilledCallbacks[k].next = 2
    /\ \E i \in 1..Len(invoked) : invoked[i].reg = 3 /\ invoked[i].src = 2

\* ------------------------------------------------------------------ task queue
\* Task functions as data: what a call of the function does before it returns
\* its promise. "runs" only returns it; "throws" raises instead; "adds" first
\* calls queue.add(task 1); "pauses" first calls queue.pause().
TaskBehaviour == <<"runs", "throws", "adds", "pauses">>

\* The part of the state the queue's methods read and write.
CurQueue ==
    [maxConcurency |-> maxConcurency, restTasks |-> restTasks,
     runningTasks |-> runningTasks, IS_PAUSE |-> IS_PAUSE, started |-> started,
     added |-> added]

CommitQueue(q) ==
    /\ maxConcurency' = q.maxConcurency
    /\ restTasks' = q.restTasks
    /\ runningTasks' = q.runningTasks
    /\ IS_PAUSE' = q.IS_PAUSE
    /\ started' = q.started
    /\ added' = q.added

RECURSIVE TryFillRunningTasks(_)
RECURSIVE FillLoop(_)

\* #restTasks.push as #init redefines it: the native push, then #tryFillRunningTasks
Push(q, task) == TryFillRunningTasks([q EXCEPT !.restTasks = Append(@, task)])

\* #runningTasks.delete as #init redefines it: the native delete, then #tryFillRunningTasks
Delete(q, task) == TryFillRunningTasks([q EXCEPT !.runningTasks = @ \ {task}])

\* add(task)
QueueAdd(q, task) == Push([q EXCEPT !.added = Append(@, task)], task)

\* pause()
QueuePause(q) == [q EXCEPT !.IS_PAUSE = TRUE]

\* continue()
QueueContinue(q) ==
    IF ~q.IS_PAUSE THEN q ELSE TryFillRunningTasks([q EXCEPT !.IS_PAUSE = FALSE])

\* #createPromise(task): the async executor calls task() at once; a raise is
\* caught there and then, and the delete that follows it runs before
\* #createPromise returns.
CreatePromise(q, task) ==
    LET run == Len(q.started) + 1
        q1 == [q EXCEPT !.started = Append(@, [task |-> task, finished |-> FALSE,
                                               whilePaused |-> q.IS_PAUSE])]
        does == TaskBehaviour[task]
    IN  CASE does = "throws" -> Delete([q1 EXCEPT !.started[run].finished = TRUE], task)
          [] does = "adds" -> QueueAdd(q1, 1)
          [] does = "pauses" -> QueuePause(q1)
          [] OTHER -> q1

\* the while loop of #tryFillRunningTasks
FillLoop(q) ==
    IF Cardinality(q.runningTasks) < q.maxConcurency /\ q.restTasks # <<>>
    THEN LET next == Head(q.restTasks)
             q1 == CreatePromise([q EXCEPT !.restTasks = Tail(@)], next)
         IN  FillLoop([q1 EXCEPT !.runningTasks = @ \cup {next}])
    ELSE q

\* #tryFillRunningTasks()
TryFillRunningTasks(q) == IF q.IS_PAUSE THEN q ELSE FillLoop(q)

\* no promise scenario is running
PromisesIdle ==
    /\ promises = <<>>
    /\ microtasks = <<>>
    /\ adoptions = <<>>
    /\ callStack = <<>>
    /\ invoked = <<>>
    /\ settleLog = <<>>
    /\ uncaught = FALSE
    /\ thenKind = <<>>
    /\ settleCalls = 0
    /\ results = <<>>
    /\ restNum = 0
    /\ staticCall = NoStaticCall
    /\ thenableTrace = <<>>

\* new TaskQueue({ maxConcurency })
InitQueue ==
    /\ PromisesIdle
    /\ ProduceIdle
    /\ constructed = NoConstruction
    /\ maxConcurency \in 1..MaxConcurrency
    /\ restTasks = <<>>
    /\ runningTasks = {}
    /\ IS_PAUSE = FALSE
    /\ started = <<>>
    /\ added = <<>>

\* the runs that have started and not finished
Unfinished == {i \in 1..Len(started) : ~started[i].finished}

\* calls of add() made from outside the tasks: every "adds" run made one from inside
OutsideAdds ==
    Len(added) - Cardinality({i \in 1..Len(started) : TaskBehaviour[started[i].task] = "adds"})

\* a client calls queue.add(task)
AddTask ==
    /\ OutsideAdds < MaxAdds
    /\ \E task \in 1..Len(TaskBehaviour) : CommitQueue(QueueAdd(CurQueue, task))
    /\ UNCHANGED <<promiseVars, constructed, produceVars>>

\* a client calls queue.pause()
PauseQueue ==
    /\ CommitQueue(QueuePause(CurQueue))
    /\ UNCHANGED <<promiseVars, constructed, produceVars>>

\* a client calls queue.continue()
ContinueQueue ==
    /\ CommitQueue(QueueContinue(CurQueue))
    /\ UNCHANGED <<promiseVars, constructed, produceVars>>

\* the promise of a started task settles, either way: the executor resumes
\* after its await, settles its own promise and deletes the task from the map
TaskFinishes ==
    /\ \E i \in Unfinished :
          CommitQueue(Delete([CurQueue EXCEPT !.started[i].finished = TRUE], started[i].task))
    /\ UNCHANGED <<promiseVars, constructed, produceVars>>

NextQueue == AddTask \/ PauseQueue \/ ContinueQueue \/ TaskFinishes

SpecQueue == InitQueue /\ [][NextQueue]_vars

\* ------------------------------------------------------------------ claims, task queue
\* C15: in every reachable state the number of runs started and not finished
\* is at most maxConcurency.
C15_ConcurrencyBound == Cardinality(Unfinished) <= maxConcurency

\* C18: every finished run has left the map (its keys are functions of runs
\* still going), tasks start in the order they were added, and a queue that is
\* not paused never holds a waiting task while no run is going.
C18_SlotsFreed ==
    /\ runningTasks \subseteq {started[i].task : i \in Unfinished}
    /\ \A i \in 1..Len(started) : started[i].task = added[i]
    /\ (~IS_PAUSE /\ restTasks # <<>>) => Unfinished # {}

\* C19: no run starts while the queue is paused, that is between a pause()
\* call and the next continue() call.
C19_NoStartWhilePaused == \A i \in 1..Len(started) : ~started[i].whilePaused

\* ------------------------------------------------------------------ produce
\* Values of the data handed to produce: primitives (Plain), null, and
\* references to the objects and arrays of the heap.
Null == [t |-> "null", v |-> 0]
NodeRef(n) == [t |-> "node", v |-> n]

\* An object or array: its kind and the values under its keys, in key order.
Node(kind, kids) == [kind |-> kind, kids |-> kids]

\* The part of the state produce's inner functions read and write.
CurProduce == [heap |-> heap, proxyRecords |-> proxyRecords, copyRecords |-> copyRecords]

Returned(d, v) == [d |-> d, val |-> v, error |-> "none"]
Raised(d, e) == [d |-> d, val |-> Null, error |-> e]

\* isPlainObject(o) for o other than null; for null Object.getPrototypeOf raises
IsPlainObject(d, o) == o.t = "node" /\ d.heap[o.v].kind = "object"

\* Array.isArray(o)
IsArray(d, o) == o.t = "node" /\ d.heap[o.v].kind = "array"

\* copyRecords.has(o)
HasCopy(d, o) == o.t = "node" /\ o.v \in DOMAIN d.copyRecords /\ d.copyRecords[o.v] # 0

\* createProxy(o)
CreateProxy(d, o) ==
    IF o.t = "null" THEN Raised(d, "TypeError")
    ELSE IF ~IsPlainObject(d, o) /\ ~IsArray(d, o) THEN Returned(d, o)
    ELSE Returned([d EXCEPT !.proxyRecords = @ \cup {o.v}], o)

\* createShallowCopy(o) for source node n: the copy is a new node of the heap
CreateShallowCopy(d, n) ==
    IF d.copyRecords[n] # 0 THEN [d |-> d, copy |-> d.copyRecords[n]]
    ELSE [d |-> [d EXCEPT !.heap = Append(@, d.heap[n]),
                          !.copyRecords[n] = Len(d.heap) + 1],
          copy |-> Len(d.heap) + 1]

\* hasChanged(o): "true", "false", or the error it ends in. For an array that
\* has no copy and is not empty, the loop body calls hasChanged(o) on the array
\* itself: the recursion ends only when the stack is exhausted (RangeError).
RECURSIVE HasChanged(_, _)
RECURSIVE AnyKeyChanged(_, _, _)
HasChanged(d, o) ==
    IF HasCopy(d, o) THEN "true"
    ELSE IF o.t = "null" THEN "TypeError"
    ELSE IF IsPlainObject(d, o) THEN AnyKeyChanged(d, d.heap[o.v].kids, 1)
    ELSE IF IsArray(d, o) /\ d.heap[o.v].kids # <<>> THEN "RangeError"
    ELSE "false"

\* for (const k of keys) if (hasChanged(o[k])) return true
AnyKeyChanged(d, kids, k) ==
    IF k > Len(kids) THEN "false"
    ELSE LET r == HasChanged(d, kids[k])
         IN  IF r = "false" THEN AnyKeyChanged(d, kids, k + 1) ELSE r

\* finalize(o)
RECURSIVE Finalize(_, _)
RECURSIVE FinalizeKeys(_, _, _)
Finalize(d, o) ==
    IF o.t = "null" THEN Raised(d, "TypeError")
    ELSE IF ~IsPlainObject(d, o) /\ ~IsArray(d, o) THEN Returned(d, o)
    ELSE IF o.v \notin d.proxyRecords THEN Returned(d, o)
    ELSE LET changed == HasChanged(d, o)
         IN  IF changed = "false" THEN Returned(d, o)
             ELSE IF changed # "true" THEN Raised(d, changed)
             ELSE LET c == CreateShallowCopy(d, o.v)
                  IN  FinalizeKeys(c.d, c.copy, 1)

\* oCopy[k] = finalize(oCopy[k]) for each key or index, then return oCopy
FinalizeKeys(d, c, k) ==
    IF k > Len(d.heap[c].kids) THEN Returned(d, NodeRef(c))
    ELSE LET r == Finalize(d, d.heap[c].kids[k])
         IN  IF r.error # "none" THEN r
             ELSE FinalizeKeys([r.d EXCEPT !.heap[c].kids[k] = r.val], c, k + 1)

\* proxyHandler.set(target, prop, value)
ProxySet(d, n, k, value) ==
    LET c == CreateShallowCopy(d, n)
    IN  [c.d EXCEPT !.heap[c.copy].kids[k] = value]

\* ------------------------------------------------------------------ produce scenario
\* what a key of the source may hold
SlotValues == {Plain(1), Null} \cup {NodeRef(j) : j \in 2..NumNodes}

NodeShapes ==
    {Node(kind, kids) : kind \in {"object", "array"},
                        kids \in UNION {SeqsOfLen(SlotValues, n) : n \in 0..MaxWidth}}

\* h is a tree rooted at node 1: every other node is held in exactly one
\* place (node, key), and that is a place of an earlier node
IsTree(h) ==
    \A j \in 2..Len(h) :
        LET holders == {pl \in (1..Len(h)) \X (1..MaxWidth) :
                           /\ pl[2] <= Len(h[pl[1]].kids)
                           /\ h[pl[1]].kids[pl[2]] = NodeRef(j)}
        IN  /\ Cardinality(holders) = 1
            /\ \A pl \in holders : pl[1] < j

\* produce(source, action) has been called: createProxy(source) is done and
\* action is about to run
InitProduce ==
    /\ PromisesIdle
    /\ constructed = NoConstruction
    /\ maxConcurency = 1 /\ restTasks = <<>> /\ runningTasks = {} /\ IS_PAUSE = FALSE
    /\ started = <<>> /\ added = <<>>
    /\ heap \in {h \in [1..NumNodes -> NodeShapes] : IsTree(h)}
    /\ proxyRecords = {1}
    /\ copyRecords = [n \in 1..NumNodes |-> 0]
    /\ produced = [NotProduced EXCEPT !.phase = "action"]
    /\ sourceAtCall = heap
    /\ written = {}
    /\ accesses = 0

\* the action reads proxy[k] of a proxy it holds: the get trap
ReadProperty ==
    /\ produced.phase = "action"
    /\ accesses < MaxAccesses
    /\ \E n \in proxyRecords : \E k \in 1..Len(heap[n].kids) :
          LET r == CreateProxy(CurProduce, heap[n].kids[k])
          IN  /\ proxyRecords' = r.d.proxyRecords
              /\ produced' = IF r.error = "none" THEN produced
                             ELSE [phase |-> "raised", value |-> Null, error |-> r.error]
    /\ accesses' = accesses + 1
    /\ UNCHANGED <<promiseVars, constructed, queueVars, heap, copyRecords, sourceAtCall,
                   written>>

\* the action assigns proxy[k] = 9 on a proxy it holds: the set trap
WriteProperty ==
    /\ produced.phase = "action"
    /\ accesses < MaxAccesses
    /\ \E n \in proxyRecords : \E k \in 1..Len(heap[n].kids) :
          LET d == ProxySet(CurProduce, n, k, Plain(9))
          IN  /\ heap' = d.heap
              /\ copyRecords' = d.copyRecords
              /\ written' = written \cup {<<n, k>>}
    /\ accesses' = accesses + 1
    /\ UNCHANGED <<promiseVars, constructed, queueVars, proxyRecords, produced, sourceAtCall>>

\* the action returns: return finalize(source)
ActionReturns ==
    /\ produced.phase = "action"
    /\ LET r == Finalize(CurProduce, NodeRef(1))
       IN  /\ heap' = r.d.heap
           /\ copyRecords' = r.d.copyRecords
           /\ produced' = IF r.error = "none"
                          THEN [phase |-> "returned", value |-> r.val, error |-> "none"]
                          ELSE [phase |-> "raised", value |-> Null, error |-> r.error]
    /\ UNCHANGED <<promiseVars, constructed, queueVars, proxyRecords, sourceAtCall, written,
                   accesses>>

NextProduce == ReadProperty \/ WriteProperty \/ ActionReturns

SpecProduce == InitProduce /\ [][NextProduce]_vars

\* ------------------------------------------------------------------ claims, produce
\* source node n was assigned to, or a node below it was
RECURSIVE Modified(_)
Modified(n) ==
    \/ \E k \in 1..MaxWidth : <<n, k>> \in written
    \/ \E k \in 1..Len(sourceAtCall[n].kids) :
          /\ sourceAtCall[n].kids[k].t = "node"
          /\ Modified(sourceAtCall[n].kids[k].v)

\* C20: a call of produce ends by returning; the nodes of the source are then
\* as they were at the call; the result is the source itself when nothing in it
\* was modified, and otherwise every unmodified subtree of a modified node sits
\* in that node's copy, under the same key, as the very node of the source.
C20_ProduceSharesStructure ==
    produced.phase \notin {"idle", "action"} =>
        /\ produced.phase = "returned"
        /\ \A n \in 1..Len(sourceAtCall) : heap[n] = sourceAtCall[n]
        /\ ~Modified(1) => produced.value = NodeRef(1)
        /\ Modified(1) => produced.value = NodeRef(copyRecords[1])
        /\ \A n \in 1..Len(sourceAtCall) : \A k \in 1..Len(sourceAtCall[n].kids) :
              LET kid == sourceAtCall[n].kids[k]
              IN  (/\ copyRecords[n] # 0
                   /\ <<n, k>> \notin written
                   /\ kid.t = "node"
                   /\ ~Modified(kid.v)) => heap[copyRecords[n]].kids[k] = kid
====
